---------------------------- MODULE Spec2Model ----------------------------
(***************************************************************************)
(* Model of the tools for analysing linguistic keyness.                    *)
(*                                                                         *)
(* Spec: align_corpora.py.  process_corpus groups the rows of a study and  *)
(* of a reference CSV corpus by timebin and label, and pair_entries (a     *)
(* generator) pairs study entries with reference entries group by group,   *)
(* backfilling along the label hierarchy.  The run is the one of the       *)
(* __main__ block: group the study corpus (shuffle=False), group the       *)
(* reference corpus (shuffle=True), consume pair_entries.                  *)
(* SpecTerminates is the same run under weak fairness.                     *)
(*                                                                         *)
(* SpecFloor: floor_time and bin_time of count_timebins.py and             *)
(* floor_large_time of keyness.py, called on one timestamp.                *)
(*                                                                         *)
(* SpecKeyness: score_keyness, calculate_keyness_statistic with its cache, *)
(* and save_df of keyness.py, on one counts DataFrame.                     *)
(*                                                                         *)
(* SpecCount: create_binned_wordcount_df of keyness.py on one CSV of       *)
(* paired tweets.                                                          *)
(***************************************************************************)
EXTENDS Integers, Sequences, FiniteSets, TLC

VARIABLES
    args,              \* the parsed command line (fixed during a run)
    study_file,        \* rows of the study CSV, as csv.DictReader yields them
    reference_file,    \* rows of the reference CSV
    pc,                \* position of the run
    reader,            \* number of rows the current DictReader has yielded
    grouped_entries,   \* process_corpus: grouped_entries
    study_groups,      \* timebin start -> label -> list of rows
    reference_groups,  \* timebin start -> label -> list of rows
    timebin_pos,       \* pair_entries: position of the for loop over study_groups
    entry_number,      \* pair_entries: entry_number
    labels,            \* pair_entries: labels
    label_pos,         \* pair_entries: position of enumerate(labels)
    label_index,       \* pair_entries: label_index (0-based, as in the code)
    ref_label,         \* pair_entries: the label whose reference bucket
                       \*   reference_entries is bound to
    study_entry,       \* pair_entries: study_entry
    pair_id,           \* pair_entries: pair_id
    out,               \* the tuples pair_entries has yielded, in order
    popped,            \* history: the study entries popped at line 151, in order
    stdout,            \* what the run has printed
    error,             \* the exception that ended the run, or None
    call_dt,           \* flooring: the datetime handed to floor_time and bin_time
    call_time_str,     \* flooring: the ISO string handed to floor_large_time
    call_interval,     \* flooring: the interval (to, interval, timebin_interval)
    call_unit,         \* flooring: the unit
    floored,           \* what floor_time returned or raised
    refloored,         \* what floor_time returned for the floored datetime
    binned,            \* what bin_time returned or raised
    floored_large,     \* what floor_large_time returned or raised
    refloored_large,   \* what floor_large_time returned for the floored string
    counts_df,         \* scoring: the counts DataFrame handed to score_keyness
    keyness_args,      \* scoring: the arguments of the scoring pass under way
    keyness_col,       \* scoring: the scores of the rows scored so far
    via,               \* history: how each of these scores was obtained
    cache,             \* the lru_cache of _cache_signed_g: key -> score
    chi2,              \* history: the G chi2_contingency returned for each
                       \*   table [counts, totals] it was called with
    saved,             \* the sorted rows save_df writes
    kpc,               \* position of the scoring run
    passes,            \* number of scoring passes begun
    thresholds,        \* history: the cache_sum_threshold of every pass begun
    count_args,        \* counting: the arguments of create_binned_wordcount_df
    pairs_file,        \* counting: the rows of the CSV of paired tweets
    pairs_read,        \* counting: number of rows the DictReader has yielded
    all_counters,      \* counting: all_counters, bin -> corpus -> Counter
    count_result,      \* what create_binned_wordcount_df returned or raised
    cpc                \* position of the counting run

inputs == <<args, study_file, reference_file>>
groups == <<study_groups, reference_groups>>
locals == <<timebin_pos, entry_number, labels, label_pos, label_index,
            ref_label, study_entry, pair_id>>
floor_inputs == <<call_dt, call_time_str, call_interval, call_unit>>
floor_vars == <<floor_inputs, floored, refloored, binned, floored_large,
                refloored_large>>
align_vars == <<args, study_file, reference_file, pc, reader, grouped_entries,
                study_groups, reference_groups, timebin_pos, entry_number, labels,
                label_pos, label_index, ref_label, study_entry, pair_id, out, popped,
                stdout, error>>
\* The variables of the other runs, which a step of the pairing run leaves alone.
keyness_vars == <<counts_df, keyness_args, keyness_col, via, cache, chi2, saved,
                  kpc, passes, thresholds>>
count_vars == <<count_args, pairs_file, pairs_read, all_counters, count_result,
                cpc>>
elsewhere == <<floor_vars, keyness_vars, count_vars>>
vars == <<align_vars, floor_vars, keyness_vars, count_vars>>

\* Python's None where a string stands (the label key when labels are not
\* used, no exception).
None == "None"

\* Python's None where a datetime string or a row stands (the timebin key
\* when timebins are not used, no study entry yet).
NoneKey == [none |-> TRUE]

\* A name of __main__ that is not bound yet.
Unbound == [unbound |-> TRUE]

\* The result of a call that was not made yet.
NotCalled == [not_called |-> TRUE]

----------------------------------------------------------------------------
(* Bounds of the model *)

\* Most rows in a generated study corpus.
MaxStudy == 2
\* Most rows in a generated reference corpus.
MaxRef == 2

----------------------------------------------------------------------------
(* Sequences and Python dictionaries (insertion ordered) *)

Range(s) == {s[i] : i \in DOMAIN s}

\* list.pop(): the list without its last element.
Front(s) == SubSeq(s, 1, Len(s) - 1)

Last(s) == s[Len(s)]

\* All orderings of the elements of s (what random.shuffle can leave).
Perms(s) ==
    {p \in [DOMAIN s -> Range(s)] :
        \A x \in Range(s) :
            Cardinality({i \in DOMAIN s : p[i] = x})
                = Cardinality({i \in DOMAIN s : s[i] = x})}

\* dict()
EmptyDict == [keys |-> <<>>, at |-> <<>>]

\* key in d
DictHas(d, k) == k \in DOMAIN d.at

\* d[k] = v : a new key goes last in the iteration order.
DictSet(d, k, v) ==
    [keys |-> IF DictHas(d, k) THEN d.keys ELSE Append(d.keys, k),
     at   |-> (k :> v) @@ d.at]

\* d.get(k, default)
DictGet(d, k, default) == IF DictHas(d, k) THEN d.at[k] ELSE default

----------------------------------------------------------------------------
(* Python numbers and exceptions *)

\* An int n, and a float given in halves (Float(3) is 1.5, Float(4) is 2.0).
PyInt(n) == [int |-> n]
PyFloat(halves) == [float |-> halves]

\* isinstance(x, int)
isinstance_int(x) == "int" \in DOMAIN x

\* Variant of LessThanOne: only zero is refused.
IsZero(x) == IF isinstance_int(x) THEN x.int = 0 ELSE x.float = 0

\* x < 1
LessThanOne(x) == IF isinstance_int(x) THEN x.int < 1 ELSE x.float < 2

\* a // b and a % b of Python ints (b # 0): the quotient is rounded toward
\* minus infinity, the remainder has the sign of b.
FloorDiv(a, b) == IF b > 0 THEN a \div b ELSE (-a) \div (-b)
Mod(a, b) == a - b * FloorDiv(a, b)

\* raise Exception(message)
Raise(message) == [exception |-> message]
Raised(v) == "exception" \in DOMAIN v

----------------------------------------------------------------------------
(* count_timebins.py: flooring and binning.  A datetime is the timedelta    *)
(* dt - dt.min: [days, seconds, microseconds], so .days and .seconds of     *)
(* that timedelta are its fields.                                           *)

SecondsPer(unit) ==
    CASE unit = "hours"   -> 3600
      [] unit = "minutes" -> 60
      [] unit = "seconds" -> 1

\* Variant of floor_time: rounds down to the multiple strictly below the
\* offset.
floor_time_below(dt, to, unit) ==
    IF LessThanOne(to) \/ ~isinstance_int(to) THEN Raise("Invalid to parameter")
    ELSE IF unit = "days" THEN
        [days |-> FloorDiv(dt.days - 1, to.int) * to.int,
         seconds |-> 0, microseconds |-> 0]
    ELSE IF unit \in {"hours", "minutes", "seconds"} THEN
        LET bin_interval == to.int * SecondsPer(unit)
        IN  IF dt.seconds = 0 THEN [dt EXCEPT !.microseconds = 0]
            ELSE [days |-> dt.days,
                  seconds |-> FloorDiv(dt.seconds - 1, bin_interval) * bin_interval,
                  microseconds |-> 0]
    ELSE Raise("Unknown unit")

\* floor_time(dt, to, unit): the floored datetime, or the exception raised.
floor_time(dt, to, unit) ==
    IF LessThanOne(to) \/ ~isinstance_int(to) THEN Raise("Invalid to parameter")
    ELSE IF unit = "days" THEN
        LET old_time_offset == dt.days
            new_time_offset == FloorDiv(old_time_offset, to.int) * to.int
        IN  [days |-> dt.days - (old_time_offset - new_time_offset),
             seconds |-> 0, microseconds |-> 0]
    ELSE IF unit \in {"hours", "minutes", "seconds"} THEN
        LET bin_interval == to.int * SecondsPer(unit)
            old_time_offset == dt.seconds
            new_time_offset == FloorDiv(old_time_offset, bin_interval) * bin_interval
        IN  [days |-> dt.days,
             seconds |-> dt.seconds - (old_time_offset - new_time_offset),
             microseconds |-> 0]
    ELSE Raise("Unknown unit")

\* lower_limit + datetime.timedelta(**{unit: interval})
AddInterval(dt, interval, unit) ==
    IF unit = "days" THEN [dt EXCEPT !.days = @ + interval]
    ELSE LET s == dt.seconds + interval * SecondsPer(unit)
         IN  [dt EXCEPT !.days = @ + (s \div 86400), !.seconds = s % 86400]

\* Variant of bin_time: the bin is one unit wide whatever the interval.
bin_time_one_unit(dt, interval, unit) ==
    LET lower_limit == floor_time(dt, interval, unit)
    IN  IF Raised(lower_limit) THEN lower_limit
        ELSE [lower |-> lower_limit, upper |-> AddInterval(lower_limit, 1, unit)]

\* bin_time(dt, interval, unit): the string "<lower>_<upper>", kept as the
\* two limits it is formatted from; the exception of floor_time passes
\* through.
bin_time(dt, interval, unit) ==
    LET lower_limit == floor_time(dt, interval, unit)
    IN  IF Raised(lower_limit) THEN lower_limit
        ELSE [lower |-> lower_limit,
              upper |-> AddInterval(lower_limit, interval.int, unit)]

\* get_timebin_start: timebin.split("_")[0]
get_timebin_start(time, timebin_unit, timebin_interval) ==
    bin_time(time, timebin_interval, timebin_unit).lower

----------------------------------------------------------------------------
(* keyness.py: calendar flooring.  An ISO string is kept as its parts:      *)
(* [date |-> <<year, month, day>>, time |-> <<hour, minute, second>> or     *)
(* <<>>, fraction |-> <<microsecond>> or <<>>, offset |-> <<minutes>> or    *)
(* <<>>].                                                                   *)

\* dateutil.parser.isoparse: the parts left out are zero, a missing offset
\* gives a naive datetime.
isoparse(time_str) ==
    [year |-> time_str.date[1], month |-> time_str.date[2], day |-> time_str.date[3],
     hour |-> IF time_str.time = <<>> THEN 0 ELSE time_str.time[1],
     minute |-> IF time_str.time = <<>> THEN 0 ELSE time_str.time[2],
     second |-> IF time_str.time = <<>> THEN 0 ELSE time_str.time[3],
     microsecond |-> IF time_str.fraction = <<>> THEN 0 ELSE time_str.fraction[1],
     tzinfo |-> time_str.offset]

\* datetime.isoformat(): the time is always written, the fraction only when
\* the microsecond is not zero, the offset only for an aware datetime.
isoformat(d) ==
    [date |-> <<d.year, d.month, d.day>>,
     time |-> <<d.hour, d.minute, d.second>>,
     fraction |-> IF d.microsecond = 0 THEN <<>> ELSE <<d.microsecond>>,
     offset |-> d.tzinfo]

\* datetime.datetime(year, month, day)
datetime(year, month, day) ==
    [year |-> year, month |-> month, day |-> day, hour |-> 0, minute |-> 0,
     second |-> 0, microsecond |-> 0, tzinfo |-> <<>>]

MonthsPerYear == 12

\* Variant of floored_month: the months are counted from 0.
floored_month_from_zero(month, timebin_interval) ==
    month - Mod(month, timebin_interval)

\* line 187: dt.month - ((dt.month - 1) % timebin_interval)
floored_month(month, timebin_interval) ==
    month - Mod(month - 1, timebin_interval)

\* line 191: dt.year - ((dt.year - 1) % timebin_interval)
floored_year(year, timebin_interval) ==
    year - Mod(year - 1, timebin_interval)

\* floor_large_time(time_str, timebin_unit, timebin_interval): the ISO
\* string of the floored time, or the exception raised.
floor_large_time(time_str, timebin_unit, timebin_interval) ==
    IF LessThanOne(timebin_interval) \/ ~isinstance_int(timebin_interval)
        THEN Raise("Invalid timebin_interval parameter")
    ELSE IF timebin_unit \notin {"months", "years"}
        THEN Raise("Unknown timebin_unit")
    ELSE LET dt == isoparse(time_str)
         IN  IF timebin_unit = "months" THEN
                 IF Mod(MonthsPerYear, timebin_interval.int) # 0
                     THEN Raise("Month-based timebins must have a timebin_interval that is a divisor of 12")
                 ELSE isoformat(datetime(dt.year,
                                         floored_month(dt.month, timebin_interval.int),
                                         1))
             ELSE isoformat(datetime(floored_year(dt.year, timebin_interval.int), 1, 1))

----------------------------------------------------------------------------
(* keyness.py: keyness scores.  A word is the sequence of its code points;  *)
(* a counts DataFrame is a sequence of rows [word, counts], counts one int  *)
(* per corpus; a score is [g |-> n], or NaN.                                *)

NaN == [nan |-> TRUE]

RECURSIVE Sum(_)
\* counts.sum()
Sum(counts) ==
    IF counts = <<>> THEN 0 ELSE counts[1] + Sum(Tail(counts))

\* totals = tuple(counts.sum()) (line 314): the sum of every column.
ColumnSums(df, corpora) ==
    [j \in 1..corpora |-> Sum([i \in DOMAIN df |-> df[i].counts[j]])]

\* chi2_contingency(table): the expected frequency of a cell, row sum times
\* column sum over the grand total, is compared with the observed count by
\* cross-multiplying.  table = [counts, totals].
RowSum(counts) == Sum(counts)
ColumnSum(counts, totals, j) == counts[j] + totals[j]
GrandTotal(counts, totals) == Sum(counts) + Sum(totals)

\* chi2_contingency raises ValueError when an expected frequency is zero.
ZeroExpected(counts, totals) ==
    \/ Sum(totals) = 0
    \/ \E j \in DOMAIN counts : ColumnSum(counts, totals, j) = 0

\* Every observed count equals its expected frequency (then G is 0).
Proportional(counts, totals) ==
    \A j \in DOMAIN counts :
        counts[j] * GrandTotal(counts, totals)
            = RowSum(counts) * ColumnSum(counts, totals, j)

\* observed_target < expected_target (line 381); target_index counts from 0.
BelowExpected(counts, totals, target_index) ==
    counts[target_index + 1] * GrandTotal(counts, totals)
        < RowSum(counts) * ColumnSum(counts, totals, target_index + 1)

\* Variant of signed_g: the first column is taken for the target corpus.
signed_g_first_column(g, counts, totals, target_index, negatives) ==
    IF negatives /\ BelowExpected(counts, totals, 0)
        THEN [g |-> -g]
    ELSE [g |-> g]

\* _calculate_signed_g, given the G that chi2_contingency returned.
signed_g(g, counts, totals, target_index, negatives) ==
    IF negatives /\ BelowExpected(counts, totals, target_index)
        THEN [g |-> -g]
    ELSE [g |-> g]

\* Variant of ZeroScore: 0.0 whatever nan is.
ZeroScoreIgnoringNan(nan) == [g |-> 0]

\* Lines 348-351: np.nan if nan, else 0.0.
ZeroScore(nan) == IF nan THEN NaN ELSE [g |-> 0]

\* Variant of CacheKey: the key leaves out negatives.
CacheKeyWithoutSign(counts, totals, target_index, negatives) ==
    [counts |-> counts, totals |-> totals, target_index |-> target_index,
     negatives |-> TRUE]

\* The key under which lru_cache files a call of _cache_signed_g.
CacheKey(counts, totals, target_index, negatives) ==
    [counts |-> counts, totals |-> totals, target_index |-> target_index,
     negatives |-> negatives]

\* A word as Python compares strings: code point by code point, a proper
\* prefix first.
WordBefore(a, b) ==
    \/ \E k \in 1..Len(a) :
          /\ k <= Len(b)
          /\ \A m \in 1..(k - 1) : a[m] = b[m]
          /\ a[k] < b[k]
    \/ Len(a) < Len(b) /\ \A m \in 1..Len(a) : a[m] = b[m]

\* Variant of RowBefore: the scores ascending.
RowBeforeAscending(r, s) ==
    IF r.score = NaN \/ s.score = NaN
        THEN (r.score # NaN /\ s.score = NaN)
                \/ (r.score = NaN /\ s.score = NaN /\ WordBefore(r.word, s.word))
    ELSE \/ r.score.g < s.score.g
         \/ r.score.g = s.score.g /\ WordBefore(r.word, s.word)

\* sort_values([sort_by, "word"], ascending=[False, True]): r goes before s.
\* NaN scores go last whatever the direction.
RowBefore(r, s) ==
    IF r.score = NaN \/ s.score = NaN
        THEN (r.score # NaN /\ s.score = NaN)
                \/ (r.score = NaN /\ s.score = NaN /\ WordBefore(r.word, s.word))
    ELSE \/ r.score.g > s.score.g
         \/ r.score.g = s.score.g /\ WordBefore(r.word, s.word)

\* The rows in the order sort_values leaves them.
sort_values(rows) ==
    CHOOSE s \in Perms(rows) :
        \A i, j \in DOMAIN s : i < j => ~RowBefore(s[j], s[i])

----------------------------------------------------------------------------
(* align_corpora.py: process_corpus *)

\* Variant of RequiredColumns: both columns are read whatever the flags.
RequiredColumnsAlways == {args.time_column, args.label_column}

\* The columns process_corpus reads from every row (lines 66-67, 75-76):
\* row[column] raises KeyError when the row has no such column.
RequiredColumns ==
    (IF args.use_timebins THEN {args.time_column} ELSE {})
        \cup (IF args.use_labels THEN {args.label_column} ELSE {})

RowRaises(row) == ~(RequiredColumns \subseteq DOMAIN row)

RowTimebin(row) ==
    IF args.use_timebins
    THEN get_timebin_start(row[args.time_column], args.timebin_unit,
                           args.timebin_interval)
    ELSE NoneKey

RowLabel(row) == IF args.use_labels THEN row[args.label_column] ELSE None

\* Variant of AddRow: the list of the row's label is created anew for every
\* row (line 78 without the test of line 77).
AddRowFreshList(grouped, row) ==
    LET timebin_start == RowTimebin(row)
        g1 == IF ~DictHas(grouped, timebin_start)
              THEN DictSet(grouped, timebin_start, EmptyDict)
              ELSE grouped
        label == RowLabel(row)
    IN  DictSet(g1, timebin_start,
                DictSet(g1.at[timebin_start], label, <<row>>))

\* The body of the loop over the rows (lines 66-80) for a row it can read.
AddRow(grouped, row) ==
    LET timebin_start == RowTimebin(row)
        g1 == IF ~DictHas(grouped, timebin_start)
              THEN DictSet(grouped, timebin_start, EmptyDict)
              ELSE grouped
        label == RowLabel(row)
        b0 == g1.at[timebin_start]
        b1 == IF ~DictHas(b0, label) THEN DictSet(b0, label, <<>>) ELSE b0
    IN  DictSet(g1, timebin_start,
                DictSet(b1, label, Append(b1.at[label], row)))

\* shuffle_grouped_entries: every list of one timebin shuffled in place.
RECURSIVE ShuffledLists(_, _)
ShuffledLists(labeled_entries, ks) ==
    IF ks = <<>> THEN {<<>>}
    ELSE {(Head(ks) :> p) @@ f :
            p \in Perms(labeled_entries.at[Head(ks)]),
            f \in ShuffledLists(labeled_entries, Tail(ks))}

RECURSIVE ShuffledBins(_, _)
ShuffledBins(grouped, ks) ==
    IF ks = <<>> THEN {<<>>}
    ELSE {(Head(ks) :> [keys |-> grouped.at[Head(ks)].keys, at |-> a]) @@ f :
            a \in ShuffledLists(grouped.at[Head(ks)], grouped.at[Head(ks)].keys),
            f \in ShuffledBins(grouped, Tail(ks))}

\* What process_corpus can return (lines 82-85): random.shuffle is modelled
\* as leaving any ordering, the seed being an input of the run.
Returned(grouped, shuffle) ==
    IF shuffle
    THEN {[keys |-> grouped.keys, at |-> a] : a \in ShuffledBins(grouped, grouped.keys)}
    ELSE {grouped}

\* One row of process_corpus(args.study_path, ..., shuffle=False).
StudyRow ==
    /\ pc = "process_study"
    /\ reader < Len(study_file)
    /\ ~RowRaises(study_file[reader + 1])
    /\ grouped_entries' = AddRow(grouped_entries, study_file[reader + 1])
    /\ reader' = reader + 1
    /\ UNCHANGED <<elsewhere, inputs, pc, groups, locals, out, popped, stdout, error>>

StudyRowKeyError ==
    /\ pc = "process_study"
    /\ reader < Len(study_file)
    /\ RowRaises(study_file[reader + 1])
    /\ pc' = "error"
    /\ error' = "KeyError"
    /\ UNCHANGED <<elsewhere, inputs, reader, grouped_entries, groups, locals, out,
                   popped, stdout>>

StudyReturn ==
    /\ pc = "process_study"
    /\ reader = Len(study_file)
    /\ study_groups' \in Returned(grouped_entries, FALSE)
    /\ grouped_entries' = EmptyDict
    /\ reader' = 0
    /\ pc' = "process_reference"
    /\ UNCHANGED <<elsewhere, inputs, reference_groups, locals, out, popped, stdout, error>>

\* One row of process_corpus(args.reference_path, ..., shuffle=True).
ReferenceRow ==
    /\ pc = "process_reference"
    /\ reader < Len(reference_file)
    /\ ~RowRaises(reference_file[reader + 1])
    /\ grouped_entries' = AddRow(grouped_entries, reference_file[reader + 1])
    /\ reader' = reader + 1
    /\ UNCHANGED <<elsewhere, inputs, pc, groups, locals, out, popped, stdout, error>>

ReferenceRowKeyError ==
    /\ pc = "process_reference"
    /\ reader < Len(reference_file)
    /\ RowRaises(reference_file[reader + 1])
    /\ pc' = "error"
    /\ error' = "KeyError"
    /\ UNCHANGED <<elsewhere, inputs, reader, grouped_entries, groups, locals, out,
                   popped, stdout>>

ReferenceReturn ==
    /\ pc = "process_reference"
    /\ reader = Len(reference_file)
    /\ reference_groups' \in Returned(grouped_entries, TRUE)
    /\ grouped_entries' = EmptyDict
    /\ reader' = 0
    /\ pc' = "for_timebin"
    /\ UNCHANGED <<elsewhere, inputs, study_groups, locals, out, popped, stdout, error>>

----------------------------------------------------------------------------
(* align_corpora.py: pair_entries, one action per step of the generator *)

\* --label-hierarchy is nargs="+": a list of at least one label, or None
\* when the option is absent, which the model writes <<>>.
label_hierarchy == args.label_hierarchy

timebin_start == study_groups.keys[timebin_pos]

label == labels[label_pos]

\* study_entries: the list bound at line 146.
study_entries == DictGet(study_groups.at[timebin_start], label, <<>>)

\* reference_entries: the list bound at line 147 or line 159.
reference_entries == DictGet(reference_groups.at[timebin_start], ref_label, <<>>)

\* Variant of BackfillHierarchy: the backfill loop walks labels.
BackfillLabels == labels

\* The hierarchy the backfill loop walks (lines 157 and 159).
BackfillHierarchy == label_hierarchy

\* Variant of BackfillTarget: the loop walks toward the end of the hierarchy.
BackfillTargetUp ==
    IF Len(BackfillHierarchy) > 0 /\ label_index < Len(BackfillHierarchy) - 1
            /\ reference_entries = <<>>
    THEN label_index + 1
    ELSE label_index

\* Variant of BackfillTarget: the loop goes to the head of the hierarchy at
\* once, past the lists in between.
BackfillTargetToZero ==
    IF Len(BackfillHierarchy) > 0 /\ label_index > 0 /\ reference_entries = <<>>
    THEN 0
    ELSE label_index

\* The index the backfill loop (lines 157-158) moves label_index to in one
\* iteration; label_index itself when the loop condition is false.
BackfillTarget ==
    IF Len(BackfillHierarchy) > 0 /\ label_index > 0 /\ reference_entries = <<>>
    THEN label_index - 1
    ELSE label_index

\* Variant of NextEntryNumber: only the entries that got paired are counted.
NextEntryNumberPaired == Len(out) + 1

\* entry_number += 1 (line 152)
NextEntryNumber == entry_number + 1

\* Variant of YieldLabel: the label of the list the reference entry is from.
YieldLabelOfReference == ref_label

\* The label of the yielded tuple (line 165).
YieldLabel == label

\* Variant of StudyAfterPop: the entry is read and left in the list.
StudyNotPopped(entries) == entries

\* study_entries after study_entries.pop() (line 151)
StudyAfterPop(entries) == Front(entries)

\* The list of one (timebin, label) replaced by entries.
SetList(grouped, tb, lb, entries) ==
    [grouped EXCEPT !.at[tb].at[lb] = entries]

\* for timebin_start in study_groups: the next timebin (lines 139-143).
NextTimebin ==
    /\ pc = "for_timebin"
    /\ timebin_pos < Len(study_groups.keys)
    /\ timebin_pos' = timebin_pos + 1
    /\ entry_number' = 0
    /\ labels' = IF label_hierarchy = <<>>
                 THEN study_groups.at[study_groups.keys[timebin_pos + 1]].keys
                 ELSE label_hierarchy
    /\ label_pos' = 0
    /\ pc' = "for_label"
    /\ UNCHANGED <<elsewhere, inputs, reader, grouped_entries, groups, label_index,
                   ref_label, study_entry, pair_id, out, popped, stdout, error>>

\* The loop over study_groups is over: the generator returns.
StopIteration ==
    /\ pc = "for_timebin"
    /\ timebin_pos = Len(study_groups.keys)
    /\ pc' = "done"
    /\ UNCHANGED <<elsewhere, inputs, reader, grouped_entries, groups, locals, out,
                   popped, stdout, error>>

\* Variant of EnumerateIndex: label_index keeps the value the last label
\* left it with.
EnumerateIndexKept == label_index

\* The index enumerate(labels) binds label_index to for the next label
\* (line 145).
EnumerateIndex == label_pos

\* for (label_index, label) in enumerate(labels): the next label, and the
\* two lists bound at lines 146-147.
NextLabel ==
    /\ pc = "for_label"
    /\ label_pos < Len(labels)
    /\ DictHas(reference_groups, timebin_start)
    /\ label_pos' = label_pos + 1
    /\ label_index' = EnumerateIndex
    /\ ref_label' = labels[label_pos + 1]
    /\ pc' = "while_study"
    /\ UNCHANGED <<elsewhere, inputs, reader, grouped_entries, groups, timebin_pos,
                   entry_number, labels, study_entry, pair_id, out, popped,
                   stdout, error>>

\* reference_groups[timebin_start] (line 147) for a timebin the reference
\* corpus has no entry in.
NextLabelKeyError ==
    /\ pc = "for_label"
    /\ label_pos < Len(labels)
    /\ ~DictHas(reference_groups, timebin_start)
    /\ label_pos' = label_pos + 1
    /\ label_index' = EnumerateIndex
    /\ pc' = "error"
    /\ error' = "KeyError"
    /\ UNCHANGED <<elsewhere, inputs, reader, grouped_entries, groups, timebin_pos,
                   entry_number, labels, ref_label, study_entry, pair_id, out,
                   popped, stdout>>

\* The loop over the labels of a timebin is over.
LabelsExhausted ==
    /\ pc = "for_label"
    /\ label_pos = Len(labels)
    /\ pc' = "for_timebin"
    /\ UNCHANGED <<elsewhere, inputs, reader, grouped_entries, groups, locals, out,
                   popped, stdout, error>>

\* Variant of PoppedEntry: the entry at the head of the list.
PoppedEntryFirst(entries) == Head(entries)

\* What list.pop() returns (lines 151 and 164): the last entry of the list.
PoppedEntry(entries) == Last(entries)

\* while study_entries: pop a study entry and number it (lines 150-153).
PopStudy ==
    /\ pc = "while_study"
    /\ study_entries # <<>>
    /\ study_entry' = PoppedEntry(study_entries)
    /\ study_groups' = SetList(study_groups, timebin_start, label,
                               StudyAfterPop(study_entries))
    /\ entry_number' = NextEntryNumber
    /\ pair_id' = <<timebin_start, entry_number'>>
    /\ popped' = Append(popped, PoppedEntry(study_entries))
    /\ pc' = "backfill"
    /\ UNCHANGED <<elsewhere, inputs, reader, grouped_entries, reference_groups,
                   timebin_pos, labels, label_pos, label_index, ref_label, out,
                   stdout, error>>

\* while study_entries: the list is empty.
StudyExhausted ==
    /\ pc = "while_study"
    /\ study_entries = <<>>
    /\ pc' = "for_label"
    /\ UNCHANGED <<elsewhere, inputs, reader, grouped_entries, groups, locals, out,
                   popped, stdout, error>>

\* One iteration of the backfill loop (lines 157-159).
Backfill ==
    /\ pc = "backfill"
    /\ BackfillTarget # label_index
    /\ label_index' = BackfillTarget
    /\ ref_label' = BackfillHierarchy[BackfillTarget + 1]
    /\ UNCHANGED <<elsewhere, inputs, pc, reader, grouped_entries, groups, timebin_pos,
                   entry_number, labels, label_pos, study_entry, pair_id, out,
                   popped, stdout, error>>

\* Variant of ReferenceAfterPop: the entry is read and left in the list.
ReferenceNotPopped(entries) == entries

\* reference_entries after reference_entries.pop() (line 164)
ReferenceAfterPop(entries) == Front(entries)

\* A reference entry is available: pop it and yield the pair (lines 163-165).
Yield ==
    /\ pc = "backfill"
    /\ BackfillTarget = label_index
    /\ reference_entries # <<>>
    /\ reference_groups' = SetList(reference_groups, timebin_start, ref_label,
                                   ReferenceAfterPop(reference_entries))
    /\ out' = Append(out, [study_entry     |-> study_entry,
                           reference_entry |-> PoppedEntry(reference_entries),
                           pair_id         |-> pair_id,
                           label           |-> YieldLabel])
    /\ pc' = "while_study"
    /\ UNCHANGED <<elsewhere, inputs, reader, grouped_entries, study_groups, locals,
                   popped, stdout, error>>

\* Variant of AfterBreak: the generator returns.
AfterBreakReturn == "done"

\* Where break (line 167) leaves the generator: out of the while loop, at
\* the for statement over the labels.
AfterBreak == "for_label"

\* No reference entry is available: break (lines 166-167).
Break ==
    /\ pc = "backfill"
    /\ BackfillTarget = label_index
    /\ reference_entries = <<>>
    /\ pc' = AfterBreak
    /\ UNCHANGED <<elsewhere, inputs, reader, grouped_entries, groups, locals, out,
                   popped, stdout, error>>

----------------------------------------------------------------------------
(* The runs checked *)

Labels == {"included", "tweet-excluded", "user-excluded"}

\* The hierarchy of the docstring of pair_entries (lines 134-135).
DocHierarchy == <<"included", "tweet-excluded", "user-excluded">>

\* 10:05:30.000250 and 11:30:00 of one day: two one-hour timebins.
Times == {[days |-> 738336, seconds |-> 36330, microseconds |-> 250],
          [days |-> 738336, seconds |-> 41400, microseconds |-> 0]}

\* The contents one row can have under a header with the columns cols.
Cells(cols) ==
    IF cols = {"time", "label"}
        THEN {[time |-> t, label |-> l] : t \in Times, l \in Labels}
    ELSE IF cols = {"time"} THEN {[time |-> t] : t \in Times}
    ELSE IF cols = {"label"} THEN {[label |-> l] : l \in Labels}
    ELSE {<<>>}

\* The CSV files of at most n rows; a row carries its line number, which
\* tells apart rows of equal content.
Files(cols, n) ==
    UNION {{[i \in 1..k |-> [line |-> i] @@ f[i]] : f \in [1..k -> Cells(cols)]}
            : k \in 0..n}

\* The command lines: the defaults of the argument parser, with or without
\* --no-timebins, --unlabeled and --label-hierarchy.
ArgChoices ==
    {[use_timebins |-> ut, timebin_unit |-> "hours", timebin_interval |-> PyInt(1),
      time_column |-> "time", use_labels |-> ul, label_column |-> "label",
      label_hierarchy |-> h] :
        ut \in BOOLEAN, ul \in BOOLEAN, h \in {<<>>, DocHierarchy}}

\* The headers of the generated files: any of the columns the run is told to
\* read may be missing; a column it is told not to read is left out.
Headers(a) ==
    SUBSET ((IF a.use_timebins THEN {a.time_column} ELSE {})
                \cup (IF a.use_labels THEN {a.label_column} ELSE {}))

\* The backfill scenario: 3 "included" study rows; 1 "included", no
\* "tweet-excluded" and 5 "user-excluded" reference rows, in one timebin
\* (10:05:30.000250 and 10:40:00 of one day).
ScenarioTime(i) ==
    IF i % 2 = 1 THEN [days |-> 738336, seconds |-> 36330, microseconds |-> 250]
    ELSE [days |-> 738336, seconds |-> 38400, microseconds |-> 0]

ScenarioArgs ==
    [use_timebins |-> TRUE, timebin_unit |-> "hours", timebin_interval |-> PyInt(1),
     time_column |-> "time", use_labels |-> TRUE, label_column |-> "label",
     label_hierarchy |-> DocHierarchy]

ScenarioStudy ==
    [i \in 1..3 |-> [line |-> i, time |-> ScenarioTime(i), label |-> "included"]]

ScenarioReference ==
    [i \in 1..6 |-> [line |-> i, time |-> ScenarioTime(i),
                     label |-> IF i = 3 THEN "included" ELSE "user-excluded"]]

\* No flooring call is under way.
FloorIdle ==
    /\ call_dt = NotCalled
    /\ call_time_str = NotCalled
    /\ call_interval = NotCalled
    /\ call_unit = None
    /\ floored = NotCalled
    /\ refloored = NotCalled
    /\ binned = NotCalled
    /\ floored_large = NotCalled
    /\ refloored_large = NotCalled

\* No counting run is under way.
CountIdle ==
    /\ count_args = Unbound
    /\ pairs_file = <<>>
    /\ pairs_read = 0
    /\ all_counters = EmptyDict
    /\ count_result = NotCalled
    /\ cpc = "idle"

\* No scoring run is under way.
KeynessIdle ==
    /\ counts_df = <<>>
    /\ keyness_args = Unbound
    /\ keyness_col = <<>>
    /\ via = <<>>
    /\ cache = <<>>
    /\ chi2 = <<>>
    /\ saved = NotCalled
    /\ kpc = "idle"
    /\ passes = 0
    /\ thresholds = {}

Init ==
    /\ FloorIdle
    /\ KeynessIdle
    /\ CountIdle
    /\ \/ /\ args \in ArgChoices
          /\ \E cols \in Headers(args) :
                /\ study_file \in Files(cols, MaxStudy)
                /\ reference_file \in Files(cols, MaxRef)
       \/ /\ args = ScenarioArgs
          /\ study_file = ScenarioStudy
          /\ reference_file = ScenarioReference
    /\ pc = "process_study"
    /\ reader = 0
    /\ grouped_entries = EmptyDict
    /\ study_groups = Unbound
    /\ reference_groups = Unbound
    /\ timebin_pos = 0
    /\ entry_number = 0
    /\ labels = <<>>
    /\ label_pos = 0
    /\ label_index = 0
    /\ ref_label = None
    /\ study_entry = NoneKey
    /\ pair_id = <<>>
    /\ out = <<>>
    /\ popped = <<>>
    /\ stdout = <<>>
    /\ error = None

Next ==
    \/ StudyRow
    \/ StudyRowKeyError
    \/ StudyReturn
    \/ ReferenceRow
    \/ ReferenceRowKeyError
    \/ ReferenceReturn
    \/ NextTimebin
    \/ StopIteration
    \/ NextLabel
    \/ NextLabelKeyError
    \/ LabelsExhausted
    \/ PopStudy
    \/ StudyExhausted
    \/ Backfill
    \/ Yield
    \/ Break

Spec == Init /\ [][Next]_vars

----------------------------------------------------------------------------
(* Flooring runs: floor_time, bin_time and floor_large_time are called on   *)
(* one timestamp, interval and unit, and the flooring functions once more   *)
(* on what they returned.                                                   *)

\* Latest day after datetime.min among the generated datetimes.
MaxDay == 8

\* The times of day generated: <<seconds, microseconds>>.
DayTimes == {<<0, 0>>, <<3599, 0>>, <<36330, 250>>, <<86399, 999999>>}

Datetimes ==
    {[days |-> d, seconds |-> t[1], microseconds |-> t[2]] :
        d \in 0..MaxDay, t \in DayTimes}

\* "2023-05-17T10:05:30.000250+00:00", "2024-12-31T23:59:59", "0001-01-01"
\* and "0002-08-01T00:00:00".
TimeStrings ==
    {[date |-> <<2023, 5, 17>>, time |-> <<10, 5, 30>>, fraction |-> <<250>>,
      offset |-> <<0>>],
     [date |-> <<2024, 12, 31>>, time |-> <<23, 59, 59>>, fraction |-> <<>>,
      offset |-> <<>>],
     [date |-> <<1, 1, 1>>, time |-> <<>>, fraction |-> <<>>, offset |-> <<>>],
     [date |-> <<2, 8, 1>>, time |-> <<0, 0, 0>>, fraction |-> <<>>,
      offset |-> <<>>]}

\* Intervals: ints below 1, ints from 1 (divisors of 12 and of a day or not,
\* 48 hours is longer than a day), and the floats 0.5, 1.5 and 2.0.
Intervals ==
    {PyInt(n) : n \in {-1, 0, 1, 2, 3, 4, 5, 6, 7, 12, 48}}
        \cup {PyFloat(h) : h \in {1, 3, 4}}

Units == {"days", "hours", "minutes", "seconds", "months", "years", "weeks"}

\* No pairing run is under way.
AlignIdle ==
    /\ args = Unbound
    /\ study_file = <<>>
    /\ reference_file = <<>>
    /\ pc = "idle"
    /\ reader = 0
    /\ grouped_entries = EmptyDict
    /\ study_groups = Unbound
    /\ reference_groups = Unbound
    /\ timebin_pos = 0
    /\ entry_number = 0
    /\ labels = <<>>
    /\ label_pos = 0
    /\ label_index = 0
    /\ ref_label = None
    /\ study_entry = NoneKey
    /\ pair_id = <<>>
    /\ out = <<>>
    /\ popped = <<>>
    /\ stdout = <<>>
    /\ error = None

InitFloor ==
    /\ AlignIdle
    /\ KeynessIdle
    /\ CountIdle
    /\ call_dt \in Datetimes
    /\ call_time_str \in TimeStrings
    /\ call_interval \in Intervals
    /\ call_unit \in Units
    /\ floored = NotCalled
    /\ refloored = NotCalled
    /\ binned = NotCalled
    /\ floored_large = NotCalled
    /\ refloored_large = NotCalled

\* floor_time(dt, to=interval, unit=unit)
FloorTime ==
    /\ floored = NotCalled
    /\ floored' = floor_time(call_dt, call_interval, call_unit)
    /\ UNCHANGED <<align_vars, keyness_vars, count_vars, floor_inputs, refloored, binned, floored_large,
                   refloored_large>>

\* floor_time of the datetime floor_time returned.
FloorTimeAgain ==
    /\ floored # NotCalled
    /\ ~Raised(floored)
    /\ refloored = NotCalled
    /\ refloored' = floor_time(floored, call_interval, call_unit)
    /\ UNCHANGED <<align_vars, keyness_vars, count_vars, floor_inputs, floored, binned, floored_large,
                   refloored_large>>

\* bin_time(dt, interval=interval, unit=unit)
BinTime ==
    /\ binned = NotCalled
    /\ binned' = bin_time(call_dt, call_interval, call_unit)
    /\ UNCHANGED <<align_vars, keyness_vars, count_vars, floor_inputs, floored, refloored, floored_large,
                   refloored_large>>

\* floor_large_time(time_str, unit, interval)
FloorLargeTime ==
    /\ floored_large = NotCalled
    /\ floored_large' = floor_large_time(call_time_str, call_unit, call_interval)
    /\ UNCHANGED <<align_vars, keyness_vars, count_vars, floor_inputs, floored, refloored, binned,
                   refloored_large>>

\* floor_large_time of the string floor_large_time returned.
FloorLargeTimeAgain ==
    /\ floored_large # NotCalled
    /\ ~Raised(floored_large)
    /\ refloored_large = NotCalled
    /\ refloored_large' = floor_large_time(floored_large, call_unit, call_interval)
    /\ UNCHANGED <<align_vars, keyness_vars, count_vars, floor_inputs, floored, refloored, binned,
                   floored_large>>

NextFloor ==
    \/ FloorTime
    \/ FloorTimeAgain
    \/ BinTime
    \/ FloorLargeTime
    \/ FloorLargeTimeAgain

SpecFloor == InitFloor /\ [][NextFloor]_vars

----------------------------------------------------------------------------
(* Scoring runs: score_keyness scores the rows of one counts DataFrame one  *)
(* by one (calculate_keyness_col, DataFrame.apply), save_df sorts the       *)
(* scored rows; the table may then be scored again with other arguments,    *)
(* in the same process and so with the same cache.                          *)

\* Most rows (words) in a generated counts DataFrame.
MaxWords == 2
\* Highest count of a word in a corpus in a generated counts DataFrame.
MaxCount == 1
\* Highest G that chi2_contingency returns in the model.
MaxG == 2
\* Most times the table is scored in one process.
MaxPasses == 2

\* The default of cache_sum_threshold.
DefaultCacheSumThreshold == 20

\* "B", "a" and "aB": "B" sorts before "a", "a" before "aB".
Words == {<<66>>, <<97>>, <<97, 66>>}

\* The counts DataFrames of two corpora: the words of the index are distinct.
Tables ==
    UNION {{df \in [1..n -> [word : Words, counts : [1..2 -> 0..MaxCount]]] :
                \A i, j \in 1..n : i # j => df[i].word # df[j].word}
            : n \in 0..MaxWords}

\* The sign scenario: word "x" with 50 in the study corpus and 10 in the
\* reference corpus, or 10 and 50, and corpus totals of 1000 and 1000.
ScenarioTables ==
    {<<[word |-> <<120>>, counts |-> <<50, 10>>],
       [word |-> <<121>>, counts |-> <<950, 990>>]>>,
     <<[word |-> <<120>>, counts |-> <<10, 50>>],
       [word |-> <<121>>, counts |-> <<990, 950>>]>>}

\* A table in which two words have the same counts: "a" and "B" occur once
\* in the first corpus, "aB" twice in the second.
RepeatedCountsTable ==
    <<[word |-> <<97>>, counts |-> <<1, 0>>],
      [word |-> <<66>>, counts |-> <<1, 0>>],
      [word |-> <<97, 66>>, counts |-> <<0, 2>>]>>

\* The arguments of score_keyness: the statistics ("g" is the only one the
\* module defines), the position of the target corpus among the columns, and
\* the keyword arguments passed down to calculate_keyness_statistic.
KeynessArgs ==
    [statistic : {"g", "chi2"}, target_index : {0, 1}, negatives : BOOLEAN,
     nan : BOOLEAN, cache_sum_threshold : {1, DefaultCacheSumThreshold}]

InitKeyness ==
    /\ AlignIdle
    /\ FloorIdle
    /\ CountIdle
    /\ counts_df \in Tables \cup ScenarioTables \cup {RepeatedCountsTable}
    /\ keyness_args = Unbound
    /\ keyness_col = <<>>
    /\ via = <<>>
    /\ cache = <<>>
    /\ chi2 = <<>>
    /\ saved = NotCalled
    /\ kpc = "start"
    /\ passes = 0
    /\ thresholds = {}

totals == ColumnSums(counts_df, 2)

\* The row DataFrame.apply hands to calculate_keyness_statistic next.
counts_row == counts_df[Len(keyness_col) + 1]
total_count == Sum(counts_row.counts)

key == CacheKey(counts_row.counts, totals, keyness_args.target_index,
                keyness_args.negatives)

\* The G chi2_contingency can return for a table: what it returned before
\* for the same table, 0 for a table of proportional rows, else above 0.
GValues(counts, tots) ==
    IF <<counts, tots>> \in DOMAIN chi2 THEN {chi2[<<counts, tots>>]}
    ELSE IF Proportional(counts, tots) THEN {0}
    ELSE 1..MaxG

\* calculate_keyness_col (lines 313-314): a scoring pass begins.
CalculateKeynessCol ==
    /\ kpc \in {"start", "saved"}
    /\ passes < MaxPasses
    /\ keyness_args' \in KeynessArgs
    /\ keyness_col' = <<>>
    /\ via' = <<>>
    /\ saved' = NotCalled
    /\ kpc' = "apply"
    /\ passes' = passes + 1
    /\ thresholds' = thresholds \cup {keyness_args'.cache_sum_threshold}
    /\ UNCHANGED <<align_vars, floor_vars, count_vars, counts_df, cache, chi2>>

Applying == kpc = "apply" /\ Len(keyness_col) < Len(counts_df)

\* calculate_keyness_statistic, lines 346-351: the word occurs nowhere.
ZeroCount ==
    /\ Applying
    /\ total_count = 0
    /\ keyness_col' = Append(keyness_col, ZeroScore(keyness_args.nan))
    /\ via' = Append(via, "zero")
    /\ UNCHANGED <<align_vars, floor_vars, count_vars, counts_df, keyness_args, cache, chi2,
                   saved, kpc, passes,
                   thresholds>>

\* eval("_cache_signed_" + statistic) or eval("_calculate_signed_" +
\* statistic) of a statistic the module does not define (lines 354, 358).
StatisticNameError ==
    /\ Applying
    /\ total_count # 0
    /\ keyness_args.statistic # "g"
    /\ kpc' = "NameError"
    /\ UNCHANGED <<align_vars, floor_vars, count_vars, counts_df, keyness_args, keyness_col,
                   via, cache, chi2, saved, passes,
                   thresholds>>

\* Variant of ThroughCache: only a total below the threshold.
ThroughCacheBelow == total_count < keyness_args.cache_sum_threshold

\* The test of line 353: the score is looked up in the cache.
ThroughCache == total_count <= keyness_args.cache_sum_threshold

\* _cache_signed_g (lines 353-356) for a key lru_cache holds.
CacheHit ==
    /\ Applying
    /\ total_count # 0
    /\ keyness_args.statistic = "g"
    /\ ThroughCache
    /\ key \in DOMAIN cache
    /\ keyness_col' = Append(keyness_col, cache[key])
    /\ via' = Append(via, "hit")
    /\ UNCHANGED <<align_vars, floor_vars, count_vars, counts_df, keyness_args, cache, chi2,
                   saved, kpc, passes,
                   thresholds>>

\* _cache_signed_g (lines 353-356, 387-391) for a key lru_cache lacks:
\* _calculate_signed_g runs and its result is stored.
CacheMiss ==
    /\ Applying
    /\ total_count # 0
    /\ keyness_args.statistic = "g"
    /\ ThroughCache
    /\ key \notin DOMAIN cache
    /\ ~ZeroExpected(counts_row.counts, totals)
    /\ \E g \in GValues(counts_row.counts, totals) :
          LET score == signed_g(g, counts_row.counts, totals, keyness_args.target_index,
                                keyness_args.negatives)
          IN  /\ chi2' = (<<counts_row.counts, totals>> :> g) @@ chi2
              /\ cache' = (key :> score) @@ cache
              /\ keyness_col' = Append(keyness_col, score)
    /\ via' = Append(via, "miss")
    /\ UNCHANGED <<align_vars, floor_vars, count_vars, counts_df, keyness_args, saved, kpc,
                   passes,
                   thresholds>>

\* _calculate_signed_g called directly (lines 358-359).
Direct ==
    /\ Applying
    /\ total_count # 0
    /\ keyness_args.statistic = "g"
    /\ ~ThroughCache
    /\ ~ZeroExpected(counts_row.counts, totals)
    /\ \E g \in GValues(counts_row.counts, totals) :
          /\ chi2' = (<<counts_row.counts, totals>> :> g) @@ chi2
          /\ keyness_col' = Append(keyness_col,
                                   signed_g(g, counts_row.counts, totals,
                                            keyness_args.target_index,
                                            keyness_args.negatives))
    /\ via' = Append(via, "direct")
    /\ UNCHANGED <<align_vars, floor_vars, count_vars, counts_df, keyness_args, cache, saved,
                   kpc, passes,
                   thresholds>>

\* chi2_contingency (line 376) raises ValueError: a corpus without words
\* makes an expected frequency zero.
ChiSquareValueError ==
    /\ Applying
    /\ total_count # 0
    /\ keyness_args.statistic = "g"
    /\ ThroughCache => key \notin DOMAIN cache
    /\ ZeroExpected(counts_row.counts, totals)
    /\ kpc' = "ValueError"
    /\ UNCHANGED <<align_vars, floor_vars, count_vars, counts_df, keyness_args, keyness_col,
                   via, cache, chi2, saved, passes,
                   thresholds>>

\* The scored rows: the counts with the keyness column.
keyness_df ==
    [i \in DOMAIN counts_df |->
        [word |-> counts_df[i].word, counts |-> counts_df[i].counts,
         score |-> keyness_col[i]]]

\* save_df (lines 461-465), and the tidying of score_keyness (lines
\* 289-293): the rows sorted by the keyness column, then by word.
SaveDf ==
    /\ kpc = "apply"
    /\ Len(keyness_col) = Len(counts_df)
    /\ saved' = sort_values(keyness_df)
    /\ kpc' = "saved"
    /\ UNCHANGED <<align_vars, floor_vars, count_vars, counts_df, keyness_args, keyness_col,
                   via, cache, chi2, passes,
                   thresholds>>

NextKeyness ==
    \/ CalculateKeynessCol
    \/ ZeroCount
    \/ StatisticNameError
    \/ CacheHit
    \/ CacheMiss
    \/ Direct
    \/ ChiSquareValueError
    \/ SaveDf

SpecKeyness == InitKeyness /\ [][NextKeyness]_vars

----------------------------------------------------------------------------
(* Counting runs: create_binned_wordcount_df (keyness.py 63-162) reads the  *)
(* CSV of paired tweets row by row and counts the words of every corpus     *)
(* per bin.  A tweet is the sequence of its whitespace-separated tokens.    *)

\* Most rows in a generated CSV of paired tweets.
MaxPairs == 2

corpora == <<"study", "reference">>

\* corpus + col_sep + tweet_col_suffix and corpus + col_sep + time_col_suffix
TweetColumn(corpus) ==
    IF corpus = "study" THEN "study_tweet.text" ELSE "reference_tweet.text"
TimeColumn(corpus) ==
    IF corpus = "study" THEN "study_tweet.created_at"
    ELSE "reference_tweet.created_at"

\* count_words.py, normalize: lower case, edge punctuation stripped.
normalize(token) ==
    CASE token = "A" -> "a"
      [] token = "." -> ""
      [] OTHER -> token

RECURSIVE extract_words(_)
\* count_words.py, extract_words: the normalized tokens that are not empty.
extract_words(tweet) ==
    IF tweet = <<>> THEN <<>>
    ELSE LET word == normalize(Head(tweet))
         IN  (IF word = "" THEN <<>> ELSE <<word>>) \o extract_words(Tail(tweet))

\* words without the exclude_terms (line 137).
Retained(words, exclude_terms) ==
    SelectSeq(words, LAMBDA word : word \notin Range(exclude_terms))

RECURSIVE CounterUpdate(_, _)
\* Counter.update(words)
CounterUpdate(counter, words) ==
    IF words = <<>> THEN counter
    ELSE CounterUpdate(DictSet(counter, Head(words),
                               DictGet(counter, Head(words), 0) + 1),
                       Tail(words))

\* Lines 140-145 for one corpus of a row: the counter of tweet_bin and
\* corpus is created if need be and updated with the words.
CountWords(counters, tweet_bin, corpus, words) ==
    LET c1 == IF DictHas(counters, tweet_bin) THEN counters
              ELSE DictSet(counters, tweet_bin, EmptyDict)
        bin_counters == c1.at[tweet_bin]
        b1 == IF DictHas(bin_counters, corpus) THEN bin_counters
              ELSE DictSet(bin_counters, corpus, EmptyDict)
    IN  DictSet(c1, tweet_bin,
                DictSet(b1, corpus, CounterUpdate(b1.at[corpus], words)))

\* The tweets and the rows generated.  keep_labels and exclude_terms are
\* <<>> when they are None.
Tweets == {<<"a">>, <<"A", "b">>, <<".">>}

PairRows(with_times) ==
    {[c \in {"label", "study_tweet.text", "reference_tweet.text"}
            \cup (IF with_times
                      THEN {"study_tweet.created_at", "reference_tweet.created_at"}
                  ELSE {}) |->
        CASE c = "label" -> l
          [] c = "study_tweet.text" -> s
          [] c = "reference_tweet.text" -> r
          [] OTHER -> "2023-05-17T10:05:30"] :
        l \in {"included", "user-excluded"}, s \in Tweets, r \in Tweets}

PairFiles ==
    UNION {[1..n -> PairRows(with_times)] :
            n \in 0..MaxPairs, with_times \in BOOLEAN}

CountArgs ==
    [use_bins : BOOLEAN, keep_labels : {<<>>, <<"included">>},
     exclude_terms : {<<>>, <<"b">>}]

InitCount ==
    /\ AlignIdle
    /\ FloorIdle
    /\ KeynessIdle
    /\ count_args \in CountArgs
    /\ pairs_file \in PairFiles
    /\ pairs_read = 0
    /\ all_counters = EmptyDict
    /\ count_result = NotCalled
    /\ cpc = "reading"

pair_row == pairs_file[pairs_read + 1]

Reading == cpc = "reading" /\ pairs_read < Len(pairs_file)

\* Lines 113-116: the row is kept.
Kept ==
    count_args.keep_labels = <<>>
        \/ pair_row["label"] \in Range(count_args.keep_labels)

\* Lines 124-125 can read the tweet and the time of every corpus.
HasColumns ==
    \A i \in DOMAIN corpora :
        {TweetColumn(corpora[i]), TimeColumn(corpora[i])} \subseteq DOMAIN pair_row

\* Lines 113-117: a row whose label is not kept is skipped.
SkipRow ==
    /\ Reading
    /\ ~Kept
    /\ pairs_read' = pairs_read + 1
    /\ UNCHANGED <<align_vars, floor_vars, keyness_vars, count_args, pairs_file,
                   all_counters, count_result, cpc>>

\* Lines 124-125: row[...] of a column the file lacks raises KeyError.
CountRowKeyError ==
    /\ Reading
    /\ Kept
    /\ ~HasColumns
    /\ count_result' = Raise("KeyError")
    /\ cpc' = "ended"
    /\ UNCHANGED <<align_vars, floor_vars, keyness_vars, count_args, pairs_file,
                   pairs_read, all_counters>>

\* Line 128, bins in use: the name time_str is not defined (the time was
\* bound to the name time at line 125), NameError.
CountRowNameError ==
    /\ Reading
    /\ Kept
    /\ HasColumns
    /\ count_args.use_bins
    /\ count_result' = Raise("NameError")
    /\ cpc' = "ended"
    /\ UNCHANGED <<align_vars, floor_vars, keyness_vars, count_args, pairs_file,
                   pairs_read, all_counters>>

\* Lines 122-145 without bins: the words of every corpus are counted under
\* "overall_count".
CountRow ==
    /\ Reading
    /\ Kept
    /\ HasColumns
    /\ ~count_args.use_bins
    /\ LET words(corpus) ==
              Retained(extract_words(pair_row[TweetColumn(corpus)]),
                       count_args.exclude_terms)
           first == CountWords(all_counters, "overall_count", corpora[1],
                               words(corpora[1]))
       IN  all_counters' = CountWords(first, "overall_count", corpora[2],
                                      words(corpora[2]))
    /\ pairs_read' = pairs_read + 1
    /\ UNCHANGED <<align_vars, floor_vars, keyness_vars, count_args, pairs_file,
                   count_result, cpc>>

\* Lines 148-158 with bins: add_overall_counts calls get_nonbin_columns,
\* whose lru_cache hashes the DataFrame it is given: TypeError.
AddOverallCountsTypeError ==
    /\ cpc = "reading"
    /\ pairs_read = Len(pairs_file)
    /\ count_args.use_bins
    /\ count_result' = Raise("TypeError")
    /\ cpc' = "ended"
    /\ UNCHANGED <<align_vars, floor_vars, keyness_vars, count_args, pairs_file,
                   pairs_read, all_counters>>

\* Lines 148-160 without bins: counts_df["overall_counts"] of a DataFrame
\* whose columns are ("overall_count", corpus): KeyError.
OverallCountsKeyError ==
    /\ cpc = "reading"
    /\ pairs_read = Len(pairs_file)
    /\ ~count_args.use_bins
    /\ count_result' = Raise("KeyError")
    /\ cpc' = "ended"
    /\ UNCHANGED <<align_vars, floor_vars, keyness_vars, count_args, pairs_file,
                   pairs_read, all_counters>>

NextCount ==
    \/ SkipRow
    \/ CountRowKeyError
    \/ CountRowNameError
    \/ CountRow
    \/ AddOverallCountsTypeError
    \/ OverallCountsKeyError

SpecCount == InitCount /\ [][NextCount]_vars

----------------------------------------------------------------------------
(* Properties *)

\* The positions <<timebin, label, index>> of the rows a grouping holds.
Places(grouped) ==
    UNION {UNION {{<<tb, lb, i>> : i \in DOMAIN grouped.at[tb].at[lb]}
                    : lb \in DOMAIN grouped.at[tb].at}
             : tb \in DOMAIN grouped.at}

RowAt(grouped, place) == grouped.at[place[1]].at[place[2]][place[3]]

\* The study entries popped and not paired: the one in hand while the backfill
\* loop runs is not decided yet.
Dropped ==
    {k \in DOMAIN popped :
        /\ \A j \in DOMAIN out : out[j].study_entry # popped[k]
        /\ ~(pc = "backfill" /\ k = Len(popped))}

InScenario ==
    /\ args = ScenarioArgs
    /\ study_file = ScenarioStudy
    /\ reference_file = ScenarioReference

C2_MissingTimebinRaisesNothing == timebin_pos > 0 => error = None

\* The stream of pair_entries has ended: it is exhausted, or the KeyError of
\* line 147 ended it.
PairingEnded == pc = "done" \/ (pc = "error" /\ timebin_pos > 0)

\* C3: once the stream of pair_entries has ended, in every study timebin the
\* pairs yielded plus the study entries discarded (popped and not paired, or
\* left in the lists of the timebin) equal the study rows of the timebin.
C3_PairingConservation ==
    PairingEnded =>
        \A tb \in DOMAIN study_groups.at :
            Cardinality({k \in DOMAIN out : RowTimebin(out[k].study_entry) = tb})
              + Cardinality({k \in Dropped : RowTimebin(popped[k]) = tb})
              + Cardinality({p \in Places(study_groups) : p[1] = tb})
            = Cardinality({i \in DOMAIN study_file : RowTimebin(study_file[i]) = tb})

C3_Witness ==
    /\ pc = "done"
    /\ out # <<>>
    /\ Dropped # {}
    /\ \E k \in Dropped :
          \E p \in Places(study_groups) :
              RowTimebin(RowAt(study_groups, p)) = RowTimebin(popped[k])

\* The study entries of one timebin and label that were not paired.
DiscardedOf(tb, lb) ==
    Cardinality({k \in Dropped : RowTimebin(popped[k]) = tb /\ RowLabel(popped[k]) = lb})
      + Cardinality({p \in Places(study_groups) : p[1] = tb /\ p[2] = lb})

\* C4: when pairing ends, a count of the discarded study entries has been
\* shown for every timebin and label that lost entries, and it is the number
\* of entries discarded there.
C4_DiscardsReported ==
    pc = "done" =>
        \A tb \in DOMAIN study_groups.at :
            \A lb \in DOMAIN study_groups.at[tb].at :
                DiscardedOf(tb, lb) > 0 =>
                    \E m \in DOMAIN stdout :
                        stdout[m] = [timebin |-> tb, label |-> lb,
                                     discarded |-> DiscardedOf(tb, lb)]

\* C5: every yielded pair carries the label of the list its study entry was
\* taken from, also when the reference entry is from the list of another label.
C5_PairCarriesStudyLabel ==
    \A k \in DOMAIN out : out[k].label = RowLabel(out[k].study_entry)

C5_Witness ==
    \E k \in DOMAIN out :
        RowLabel(out[k].reference_entry) # RowLabel(out[k].study_entry)

\* The number of study entries of the timebin of popped[k] popped up to and
\* including popped[k].
PopRank(k) ==
    Cardinality({j \in 1..k : RowTimebin(popped[j]) = RowTimebin(popped[k])})

\* C6: every yielded pair has the pair_id <timebin_start>_<n>, n the number
\* of study entries popped so far in that timebin, over all labels and with
\* the entries popped and discarded; the first entry popped in a timebin has 1.
C6_PairIdCountsPops ==
    \A k \in DOMAIN out :
        \E j \in DOMAIN popped :
            /\ popped[j] = out[k].study_entry
            /\ out[k].pair_id = <<RowTimebin(out[k].study_entry), PopRank(j)>>

C6_Witness ==
    /\ out # <<>>
    /\ Len(popped) >= 2
    /\ out[1].study_entry = popped[2]
    /\ out[1].pair_id[2] = 2

\* C7: without a label hierarchy nothing is backfilled: the reference entry
\* of every pair is from the list of the timebin and label of its study entry.
C7_NoHierarchyNoBackfill ==
    label_hierarchy = <<>> =>
        \A k \in DOMAIN out :
            /\ RowTimebin(out[k].reference_entry) = RowTimebin(out[k].study_entry)
            /\ RowLabel(out[k].reference_entry) = RowLabel(out[k].study_entry)

C7_Witness ==
    /\ label_hierarchy = <<>>
    /\ pc = "done"
    /\ out # <<>>
    /\ \E k \in Dropped :
          \E p \in Places(reference_groups) :
              /\ p[1] = RowTimebin(popped[k])
              /\ p[2] # RowLabel(popped[k])

\* Every row of the file is at exactly one place of the grouping, and the
\* grouping holds nothing else.
GroupsExactly(grouped, file) ==
    /\ Cardinality(Places(grouped)) = Len(file)
    /\ \A i \in DOMAIN file :
          Cardinality({p \in Places(grouped) : RowAt(grouped, p) = file[i]}) = 1

\* C9: what process_corpus returns holds every row of the corpus exactly
\* once, with and without timebins, labels and shuffling.
C9_GroupingComplete ==
    /\ pc = "process_reference" => GroupsExactly(study_groups, study_file)
    /\ (pc = "for_timebin" /\ timebin_pos = 0) =>
          GroupsExactly(reference_groups, reference_file)

C9_Witness ==
    /\ pc = "for_timebin"
    /\ timebin_pos = 0
    /\ \E tb \in DOMAIN reference_groups.at :
          \E lb \in DOMAIN reference_groups.at[tb].at :
              /\ Len(reference_groups.at[tb].at[lb]) = 2
              /\ reference_groups.at[tb].at[lb][1].line
                    > reference_groups.at[tb].at[lb][2].line

\* A column the run is told to use that the row lacks.
LacksUsedColumn(row) ==
    \/ args.use_timebins /\ args.time_column \notin DOMAIN row
    \/ args.use_labels /\ args.label_column \notin DOMAIN row

\* C10: process_corpus raises, and returns no grouping, when a row lacks the
\* time column with timebins in use or the label column with labels in use;
\* it returns a grouping only of a corpus no row of which lacks one, and it
\* raises for no other row.
C10_MissingColumnIsFatal ==
    /\ study_groups # Unbound =>
          \A i \in DOMAIN study_file : ~LacksUsedColumn(study_file[i])
    /\ reference_groups # Unbound =>
          \A i \in DOMAIN reference_file : ~LacksUsedColumn(reference_file[i])
    /\ (pc = "error" /\ timebin_pos = 0) =>
          /\ reference_groups = Unbound
          /\ IF study_groups = Unbound
             THEN LacksUsedColumn(study_file[reader + 1])
             ELSE LacksUsedColumn(reference_file[reader + 1])

C10_Witness ==
    /\ pc = "error"
    /\ error = "KeyError"
    /\ study_groups = Unbound
    /\ args.use_timebins
    /\ args.time_column \in DOMAIN study_file[reader + 1]
    /\ args.label_column \notin DOMAIN study_file[reader + 1]


----------------------------------------------------------------------------
(* Properties of the flooring runs *)

\* C11: flooring is idempotent: floor_time of a datetime that floor_time
\* returned (interval an int >= 1, unit days, hours, minutes or seconds)
\* returns that datetime again, and floor_large_time of a string that
\* floor_large_time returned (months with an interval dividing 12, years)
\* returns that string again.
C11_FlooringIdempotent ==
    /\ refloored # NotCalled => refloored = floored
    /\ refloored_large # NotCalled => refloored_large = floored_large

\* A datetime was moved by flooring it to 7 hours and floored again.
C11_Witness ==
    /\ refloored # NotCalled
    /\ call_unit = "hours"
    /\ call_interval = PyInt(7)
    /\ floored # call_dt


\* a is earlier than b (datetimes compared as Python compares them).
Earlier(a, b) ==
    \/ a.days < b.days
    \/ /\ a.days = b.days
       /\ \/ a.seconds < b.seconds
          \/ a.seconds = b.seconds /\ a.microseconds < b.microseconds

\* C12: a time lies in its bin: the lower limit bin_time returns is the
\* floored time and is not later than the time, and the time is earlier than
\* the upper limit bin_time returns (the lower limit plus interval units).
C12_TimeInsideItsBin ==
    (binned # NotCalled /\ ~Raised(binned)) =>
        /\ ~Earlier(call_dt, binned.lower)
        /\ Earlier(call_dt, binned.upper)
        /\ floored # NotCalled => binned.lower = floored

\* A time in the last second of a day was binned to 5 hours: the bin starts
\* at 20:00 and ends at 01:00 of the next day.
C12_Witness ==
    /\ binned # NotCalled
    /\ ~Raised(binned)
    /\ call_unit = "hours"
    /\ call_interval = PyInt(5)
    /\ call_dt.seconds = 86399
    /\ binned.lower.seconds = 72000
    /\ binned.upper.days = call_dt.days + 1


\* Whole seconds from datetime.min (the start of year 1) to dt.
Elapsed(dt) == dt.days * 86400 + dt.seconds

\* Seconds in interval units.
Width(interval, unit) ==
    interval * (IF unit = "days" THEN 86400 ELSE SecondsPer(unit))

\* C13: the datetime floor_time returns is aligned to the start of year 1:
\* the time from that origin to it is the largest whole multiple of
\* interval units that does not exceed the time from the origin to the
\* datetime floored, also for 7 hours and for 48 hours.
C13_FloorAlignedToOrigin ==
    (floored # NotCalled /\ ~Raised(floored)) =>
        LET width == Width(call_interval.int, call_unit)
        IN  /\ floored.microseconds = 0
            /\ Elapsed(floored) = (Elapsed(call_dt) \div width) * width


\* The interval is a float, or an int below 1.
BadInterval(interval) ==
    \/ "float" \in DOMAIN interval
    \/ interval.int < 1

\* C14: with an interval below 1 or not an int, floor_time and
\* floor_large_time raise and return no timestamp, whatever the timestamp
\* and the unit.
C14_BadIntervalRaises ==
    BadInterval(call_interval) =>
        /\ floored # NotCalled => Raised(floored)
        /\ floored_large # NotCalled => Raised(floored_large)

\* Both functions were called with the interval 1.5 and raised.
C14_Witness ==
    /\ call_interval = PyFloat(3)
    /\ call_unit = "hours"
    /\ floored # NotCalled
    /\ Raised(floored)
    /\ floored_large # NotCalled
    /\ Raised(floored_large)


\* C15: floor_large_time with months and an int interval >= 1: when the
\* interval divides 12 the result is the first day (at midnight) of month
\* 1 + interval * floor((month - 1) / interval) of the same year; when it
\* does not divide 12 the call raises.
C15_MonthFlooring ==
    (/\ floored_large # NotCalled
     /\ call_unit = "months"
     /\ ~BadInterval(call_interval)) =>
        LET interval == call_interval.int
            year == call_time_str.date[1]
            month == call_time_str.date[2]
        IN  IF 12 % interval = 0
                THEN /\ ~Raised(floored_large)
                     /\ floored_large.date =
                            <<year, 1 + interval * ((month - 1) \div interval), 1>>
                     /\ floored_large.time = <<0, 0, 0>>
                     /\ floored_large.fraction = <<>>
                ELSE Raised(floored_large)

\* 31 December 2024 was floored to 6 months: 1 July 2024.
C15_Witness ==
    /\ call_unit = "months"
    /\ call_interval = PyInt(6)
    /\ call_time_str.date = <<2024, 12, 31>>
    /\ floored_large # NotCalled
    /\ ~Raised(floored_large)
    /\ floored_large.date = <<2024, 7, 1>>


----------------------------------------------------------------------------
(* Properties of the scoring runs *)

\* C16: a word with count 0 in every corpus is scored NaN when nan is true
\* and 0.0 when it is false, whatever the totals, the target corpus, the
\* signing and the name of the statistic; chi2_contingency is not called for
\* it and the cache gets no entry for it.
C16_ZeroCountRule ==
    /\ \A i \in DOMAIN keyness_col :
          Sum(counts_df[i].counts) = 0 =>
              /\ keyness_args.nan => keyness_col[i] = NaN
              /\ ~keyness_args.nan => keyness_col[i] = [g |-> 0]
    /\ \A table \in DOMAIN chi2 : Sum(table[1]) # 0
    /\ \A k \in DOMAIN cache : Sum(k.counts) # 0

\* A word that occurs nowhere was scored NaN for a statistic the module
\* does not define, after a pass that computed and cached a score.
C16_Witness ==
    /\ passes = 2
    /\ keyness_args.statistic = "chi2"
    /\ keyness_args.nan
    /\ Len(keyness_col) = 1
    /\ counts_df[1].counts = <<0, 0>>
    /\ keyness_col[1] = NaN
    /\ DOMAIN cache # {}


\* The count of word i in the target corpus is below its expected count,
\* (sum of the word's counts) * (column total of the table [counts, totals])
\* / (grand total of that table).
ObservedBelowExpected(i) ==
    LET counts == counts_df[i].counts
        target == keyness_args.target_index + 1
    IN  counts[target] * (Sum(counts) + Sum(totals))
            < Sum(counts) * (counts[target] + totals[target])

\* C17: with signing, the score of a word that occurs is negative exactly
\* when its count in the target corpus is strictly below the expected
\* count, and non-negative otherwise; without signing it is never negative.
\* With totals 1000 and 1000 and the study corpus as target, counts 50 and
\* 10 give a positive score, counts 10 and 50 a negative one.
C17_SignOfScore ==
    /\ \A i \in DOMAIN keyness_col :
          Sum(counts_df[i].counts) # 0 =>
              IF keyness_args.negatives
                  THEN keyness_col[i].g < 0 <=> ObservedBelowExpected(i)
              ELSE keyness_col[i].g >= 0
    /\ (/\ counts_df \in ScenarioTables
        /\ Len(keyness_col) >= 1
        /\ keyness_args.negatives
        /\ keyness_args.target_index = 0) =>
            IF counts_df[1].counts = <<50, 10>>
                THEN keyness_col[1].g > 0
            ELSE keyness_col[1].g < 0

\* The word with 10 in the study corpus and 50 in the reference corpus,
\* totals 1000 and 1000, was given a negative score.
C17_Witness ==
    /\ counts_df \in ScenarioTables
    /\ counts_df[1].counts = <<10, 50>>
    /\ totals = <<1000, 1000>>
    /\ Len(keyness_col) >= 1
    /\ keyness_args.negatives
    /\ keyness_args.target_index = 0
    /\ keyness_col[1].g < 0


\* What _calculate_signed_g returns when called directly with these counts,
\* totals, target index and signing: the G of the table, negated when
\* signing is on and the target count is below the expected count.
DirectScore(counts, tots, target_index, negatives) ==
    LET g == chi2[<<counts, tots>>]
        below == counts[target_index + 1] * (Sum(counts) + Sum(tots))
                    < Sum(counts) * (counts[target_index + 1] + tots[target_index + 1])
    IN  IF negatives /\ below THEN [g |-> -g] ELSE [g |-> g]

\* C18: the score of a word that occurs, obtained through the cache (the
\* counts sum to the threshold at most) or not, is what the direct
\* calculation returns for its counts, totals, target index and signing;
\* and every entry of the cache holds the value calculated for the counts,
\* totals, target index and signing of its own key, so a hit returns no
\* value calculated for other arguments.
C18_CacheConsistency ==
    /\ \A i \in DOMAIN keyness_col :
          Sum(counts_df[i].counts) # 0 =>
              /\ keyness_col[i] = DirectScore(counts_df[i].counts, totals,
                                              keyness_args.target_index,
                                              keyness_args.negatives)
              /\ via[i] \in {"hit", "miss"}
                    <=> Sum(counts_df[i].counts) <= keyness_args.cache_sum_threshold
    /\ \A k \in DOMAIN cache :
          cache[k] = DirectScore(k.counts, k.totals, k.target_index, k.negatives)

\* A score was taken from the cache while the cache also held, for the same
\* counts and totals, another value calculated with the other signing.
C18_Witness ==
    \E i \in DOMAIN keyness_col :
        /\ via[i] = "hit"
        /\ \E k \in DOMAIN cache :
              /\ k.counts = counts_df[i].counts
              /\ k.totals = totals
              /\ k.target_index = keyness_args.target_index
              /\ k.negatives # keyness_args.negatives
              /\ cache[k] # keyness_col[i]


\* C19: the rows save_df writes are the scored rows, ordered by score
\* descending, rows of equal score by word ascending in code point order
\* (upper case before lower case), whatever the input table.
C19_SortedByScoreThenWord ==
    kpc = "saved" =>
        /\ Len(saved) = Len(counts_df)
        /\ \A i \in DOMAIN counts_df : \E j \in DOMAIN saved : saved[j] = keyness_df[i]
        /\ \A i, j \in DOMAIN saved :
              (i < j /\ saved[i].score # NaN /\ saved[j].score # NaN) =>
                  \/ saved[i].score.g > saved[j].score.g
                  \/ /\ saved[i].score.g = saved[j].score.g
                     /\ WordBefore(saved[i].word, saved[j].word)

\* Three scored rows were saved in another order than they were scored:
\* "B" and "a" have the same score, and "B" is written before "a".
C19_Witness ==
    /\ kpc = "saved"
    /\ Len(saved) = 3
    /\ saved # keyness_df
    /\ \E i \in 1..2 :
          /\ saved[i].word = <<66>>
          /\ saved[i + 1].word = <<97>>
          /\ saved[i].score = saved[i + 1].score
          /\ saved[i].score # NaN


----------------------------------------------------------------------------
(* Properties of the counting runs *)

RECURSIVE BinSum(_, _, _)
\* The count of word in corpus summed over the bins tweet_bins of
\* all_counters.
BinSum(tweet_bins, corpus, word) ==
    IF tweet_bins = <<>> THEN 0
    ELSE DictGet(DictGet(all_counters.at[Head(tweet_bins)], corpus, EmptyDict),
                 word, 0)
            + BinSum(Tail(tweet_bins), corpus, word)

\* C20: with bins in use, create_binned_wordcount_df returns a DataFrame in
\* which the overall_count of every word and corpus is the sum of the
\* word's counts in that corpus over all the bin columns it created.
C20_OverallCountIsSumOfBins ==
    (cpc = "ended" /\ count_args.use_bins) =>
        /\ ~Raised(count_result)
        /\ \A i \in DOMAIN corpora :
              \A word \in DOMAIN count_result[<<"overall_count", corpora[i]>>] :
                  count_result[<<"overall_count", corpora[i]>>][word]
                      = BinSum(all_counters.keys, corpora[i], word)

\* The words counted in some bin for some corpus: the index of the table.
Vocabulary ==
    UNION {UNION {Range(all_counters.at[b].at[c].keys)
                    : c \in Range(all_counters.at[b].keys)}
             : b \in Range(all_counters.keys)}

\* C21: create_binned_wordcount_df returns a table in which every word of
\* the vocabulary has, for every bin of the data and every corpus, a defined
\* count: the number of times it was counted there, 0 when it never was.
C21_EveryCombinationHasCount ==
    cpc = "ended" =>
        /\ ~Raised(count_result)
        /\ \A b \in Range(all_counters.keys) :
              \A i \in DOMAIN corpora :
                  \A word \in Vocabulary :
                      count_result[<<b, corpora[i]>>][word]
                          = DictGet(DictGet(all_counters.at[b], corpora[i],
                                            EmptyDict), word, 0)

RECURSIVE Occurrences(_, _)
\* How many times word is in words.
Occurrences(words, word) ==
    IF words = <<>> THEN 0
    ELSE (IF Head(words) = word THEN 1 ELSE 0) + Occurrences(Tail(words), word)

RECURSIVE RetainedInRows(_, _, _)
\* How many times word is among the retained tokens of corpus in the first
\* n rows of the file, the rows whose label is not kept left out.
RetainedInRows(n, corpus, word) ==
    IF n = 0 THEN 0
    ELSE (IF count_args.keep_labels = <<>>
                \/ pairs_file[n]["label"] \in Range(count_args.keep_labels)
          THEN Occurrences(Retained(extract_words(pairs_file[n][TweetColumn(corpus)]),
                                    count_args.exclude_terms), word)
          ELSE 0)
         + RetainedInRows(n - 1, corpus, word)

\* C23: without bins create_binned_wordcount_df reads the time of no row:
\* no row ends the run, whether or not it has the time columns, and the
\* retained tokens of every row read so far are counted under
\* "overall_count" for their corpus.
C23_NoTimeReadWithoutBins ==
    ~count_args.use_bins =>
        /\ ~(cpc = "ended" /\ pairs_read < Len(pairs_file))
        /\ \A i \in DOMAIN corpora :
              \A word \in {"a", "b"} :
                  DictGet(DictGet(DictGet(all_counters, "overall_count", EmptyDict),
                                  corpora[i], EmptyDict), word, 0)
                      = RetainedInRows(pairs_read, corpora[i], word)

----------------------------------------------------------------------------
(* Properties of pair_entries, continued *)

\* pair_entries has been called and its stream is being consumed.
Pairing == pc \in {"for_timebin", "for_label", "while_study", "backfill"}

\* C22: pair_entries leaves the two groupings it is given as they are: no
\* step of the generator changes a list of study_groups or of
\* reference_groups.
C22_GroupingsReadOnly ==
    [][Pairing => /\ study_groups' = study_groups
                  /\ reference_groups' = reference_groups]_vars

\* The 0-based index of a label in the hierarchy.
HierarchyIndex(lb) ==
    (CHOOSE i \in DOMAIN label_hierarchy : label_hierarchy[i] = lb) - 1

\* The reference lists of timebin tb for the hierarchy indices from..to are
\* all empty.
NoReferenceBetween(tb, from, to) ==
    \A i \in from..to :
        DictGet(reference_groups.at[tb], label_hierarchy[i + 1], <<>>) = <<>>

C25_BackfillSticky ==
    [][Pairing =>
        /\ (timebin_pos' = timebin_pos /\ label_pos' = label_pos) =>
              label_index' <= label_index
        /\ label_pos' = label_pos + 1 =>
              /\ label_index' = label_pos' - 1
              /\ pc' = "while_study" => ref_label' = labels'[label_pos']
        /\ label_hierarchy # <<>> =>
              \A j, k \in DOMAIN out :
                  (/\ j < k
                   /\ RowTimebin(out[j].study_entry) = RowTimebin(out[k].study_entry)
                   /\ out[j].label = out[k].label) =>
                      HierarchyIndex(RowLabel(out[k].reference_entry))
                          <= HierarchyIndex(RowLabel(out[j].reference_entry))]_vars

C25_Witness ==
    /\ pc = "backfill"
    /\ Len(popped) = 2
    /\ RowLabel(popped[1]) = "user-excluded"
    /\ RowLabel(popped[2]) = "user-excluded"
    /\ Len(out) = 1
    /\ label_pos = 3
    /\ label_index = 0
    /\ reference_entries # <<>>

\* The labels pair_entries goes through in the timebin tb (lines 141-143).
LabelsOf(tb) ==
    IF label_hierarchy = <<>> THEN study_groups.at[tb].keys ELSE label_hierarchy

\* pair_entries has left the timebin tb behind.
FinishedTimebin(tb) ==
    \E q \in DOMAIN study_groups.keys :
        /\ study_groups.keys[q] = tb
        /\ \/ q < timebin_pos
           \/ q = timebin_pos /\ pc \in {"for_timebin", "done"}

\* No reference entry of timebin tb is within reach of a study entry
\* labelled lb: its own list and, with a hierarchy, the lists below it.
NothingToPairWith(tb, lb) ==
    IF label_hierarchy = <<>>
    THEN DictGet(reference_groups.at[tb], lb, <<>>) = <<>>
    ELSE NoReferenceBetween(tb, 0, HierarchyIndex(lb))

\* C26: once a study entry was given up for want of a reference entry, no
\* later entry is popped from the list of its timebin and label, so no
\* further pair of that timebin and label is yielded and the entries left
\* in the list stay unpaired; and pairing goes on: in every timebin
\* pair_entries has left behind, a study entry is unpaired only if no
\* reference entry of the timebin was within its reach.
C26_DiscardThenGoOn ==
    /\ \A k \in Dropped :
          \A m \in DOMAIN popped :
              m > k => ~(/\ RowTimebin(popped[m]) = RowTimebin(popped[k])
                         /\ RowLabel(popped[m]) = RowLabel(popped[k]))
    /\ Pairing \/ PairingEnded =>
          \A tb \in Range(study_groups.keys) :
              FinishedTimebin(tb) =>
                  /\ \A k \in Dropped :
                        RowTimebin(popped[k]) = tb =>
                            NothingToPairWith(tb, RowLabel(popped[k]))
                  /\ \A p \in Places(study_groups) :
                        (p[1] = tb /\ p[2] \in Range(LabelsOf(tb))) =>
                            NothingToPairWith(tb, p[2])

C26_Witness ==
    /\ pc = "done"
    /\ \E k \in Dropped :
          \E j \in DOMAIN out :
              /\ out[j].study_entry = popped[Len(popped)]
              /\ Len(popped) > k
              /\ RowTimebin(popped[Len(popped)]) = RowTimebin(popped[k])

\* Two study rows are of one timebin and label.
SameList(r, s) == RowTimebin(r) = RowTimebin(s) /\ RowLabel(r) = RowLabel(s)

\* C27: the study entries of one timebin and label are popped in the
\* reverse of their order in the input (the study corpus is not shuffled):
\* an entry is popped before every entry of its list that was read earlier,
\* so the entries left in the list and the entries given up were read
\* before every paired entry of the list; and the reference entry of every
\* pair is the last of its list as the list stands when the pair is formed,
\* and is removed from it.
C27_LastInFirstOut ==
    /\ [](Pairing \/ PairingEnded =>
            /\ \A j, k \in DOMAIN popped :
                  (j < k /\ SameList(popped[j], popped[k])) =>
                      popped[j].line > popped[k].line
            /\ \A p \in Places(study_groups) :
                  \A k \in DOMAIN popped :
                      SameList(RowAt(study_groups, p), popped[k]) =>
                          RowAt(study_groups, p).line < popped[k].line
            /\ \A k \in Dropped :
                  \A j \in DOMAIN out :
                      SameList(popped[k], out[j].study_entry) =>
                          popped[k].line < out[j].study_entry.line)
    /\ [][Len(out') = Len(out) + 1 =>
            LET pair == out'[Len(out')]
                tb   == RowTimebin(pair.reference_entry)
                lb   == RowLabel(pair.reference_entry)
                list == reference_groups.at[tb].at[lb]
            IN  /\ pair.reference_entry = list[Len(list)]
                /\ reference_groups'.at[tb].at[lb] = SubSeq(list, 1, Len(list) - 1)]_vars

C27_Witness ==
    /\ pc = "done"
    /\ Len(out) = 1
    /\ out[1].study_entry.line = 2
    /\ \E k \in Dropped :
          /\ popped[k].line = 1
          /\ SameList(popped[k], out[1].study_entry)

----------------------------------------------------------------------------
(* Properties of the scoring runs, continued *)

\* C28: while every scoring pass is given the same cache_sum_threshold, the
\* cache of _cache_signed_g holds only keys whose counts sum to at least 1
\* and at most the threshold; scoring a row whose total count is above the
\* threshold leaves the cache as it is; and the score of a row whose total
\* count equals the threshold is the one the cache holds for its key.
C28_CacheOnlyUpToThreshold ==
    /\ [](\A t \in thresholds :
            thresholds = {t} =>
                \A k \in DOMAIN cache :
                    Sum(k.counts) >= 1 /\ Sum(k.counts) <= t)
    /\ [][(Applying /\ total_count > keyness_args.cache_sum_threshold) =>
            cache' = cache]_vars
    /\ [][(/\ Applying
           /\ total_count = keyness_args.cache_sum_threshold
           /\ keyness_col' # keyness_col) =>
            /\ key \in DOMAIN cache'
            /\ keyness_col'[Len(keyness_col')] = cache'[key]
            /\ via'[Len(via')] \in {"hit", "miss"}]_vars

C28_Witness ==
    /\ thresholds = {1}
    /\ passes = 2
    /\ counts_df = RepeatedCountsTable
    /\ via = <<"hit", "hit", "direct">>
    /\ DOMAIN cache # {}

----------------------------------------------------------------------------
(* Termination of pair_entries *)

\* The run with every step taken that can be taken: whoever consumes the
\* stream asks for the next pair until the generator ends.
SpecTerminates == Init /\ [][Next]_vars /\ WF_vars(Next)

\* The number of entries a grouping holds.
Held(grouped) == IF grouped = Unbound THEN 0 ELSE Cardinality(Places(grouped))

\* C29: pair_entries ends, whatever the two groupings and the hierarchy: the
\* stream is exhausted or an exception ends it; every pass of the while
\* loop takes one entry out of the study grouping, every pass of the
\* backfill loop lowers label_index, and never more pairs are yielded than
\* the study corpus has rows.
C29_PairingTerminates ==
    /\ (Pairing ~> PairingEnded)
    /\ [](Len(out) <= Len(popped) /\ Len(popped) <= Len(study_file))
    /\ [][Len(popped') = Len(popped) + 1 =>
            Held(study_groups') = Held(study_groups) - 1]_vars
    /\ [][(pc = "backfill" /\ pc' = "backfill") =>
            label_index' < label_index]_vars

C29_Witness ==
    /\ pc = "done"
    /\ Len(out) = 2
    /\ Len(study_file) = 2
    /\ RowLabel(out[1].reference_entry) # RowLabel(out[1].study_entry)
    /\ RowTimebin(out[1].study_entry) # RowTimebin(out[2].study_entry)

----------------------------------------------------------------------------
(* Properties of pair_entries: the use of the entries *)

\* C30: over the whole stream of one run of pair_entries no study entry and
\* no reference entry is in two pairs, also when entries of several study
\* labels are paired with reference entries of one list.
C30_NoEntryUsedTwice ==
    \A j, k \in DOMAIN out :
        j # k => /\ out[j].study_entry # out[k].study_entry
                 /\ out[j].reference_entry # out[k].reference_entry

C30_Witness ==
    /\ pc = "done"
    /\ Len(out) = 2
    /\ RowLabel(out[1].study_entry) = "tweet-excluded"
    /\ RowLabel(out[2].study_entry) = "user-excluded"
    /\ RowLabel(out[1].reference_entry) = "included"
    /\ RowLabel(out[2].reference_entry) = "included"
    /\ RowTimebin(out[1].study_entry) = RowTimebin(out[2].study_entry)

============================================================================
